---- MODULE Spec2Model ----
(***************************************************************************)
(* Model of grpc::ServerBuilder (src/src/cpp/server/server_builder.cc).     *)
(*                                                                         *)
(* The builder's members are the variables services_, async_services_,     *)
(* generic_service_, thread_pool_, cqs_ and ports_.  Pointers are small     *)
(* integers, 0 being nullptr.  The objects the builder creates or touches  *)
(* (server instances, default thread pools, the callers' int cells) are    *)
(* the variables servers, pools and cells.  genericCalls, setPoolCalled,   *)
(* builds and nops record what the caller has done so far, destroyed the   *)
(* completion queues whose owning handle the caller has destroyed.         *)
(*                                                                         *)
(* The Server class is a collaborator: the result of each call the builder *)
(* makes on it (RegisterService, RegisterAsyncService,                     *)
(* RegisterAsyncGenericService, AddListeningPort, Start) is an input of    *)
(* BuildAndStart, drawn from every value its return type allows.           *)
(***************************************************************************)
EXTENDS Integers, Sequences, FiniteSets

VARIABLES services_, async_services_, generic_service_, thread_pool_,
          cqs_, ports_, servers, pools, cells, genericCalls, setPoolCalled,
          builds, nops, destroyed

vars == <<services_, async_services_, generic_service_, thread_pool_,
          cqs_, ports_, servers, pools, cells, genericCalls, setPoolCalled,
          builds, nops, destroyed>>

\* ---------------------------------------------------------------- bounds
\* Number of calls made by the caller, BuildAndStart included.
MaxOps == 4

\* ---------------------------------------------------------------- values
Null == 0
\* host of a NamedService: Null when registered without an address.
Hosts == {Null, 1}
\* SynchronousService / AsynchronousService objects of the caller.
Services == {1}
\* AsyncGenericService objects of the caller, and nullptr.
GenericServices == {Null, 1, 2}
\* ThreadPoolInterface objects of the caller, and nullptr.
UserPools == {Null, 1}
\* Addresses given to AddListeningPort.
Addrs == {1}
\* int cells of the caller, and nullptr.
SelectedPorts == {Null, 1}
\* Values of the int that Server::AddListeningPort returns.
BindResults == {-1, 0, 1}
\* Identity of the k-th default pool: above the caller's pools.
DefaultPoolId(k) == k + 1
\* A call made on a server instance: the operation, its two arguments and
\* what it returned (for a bool, 1 is true and 0 is false).
Call(op, a, b, ret) == [op |-> op, a |-> a, b |-> b, ret |-> ret]

\* ---------------------------------------------------------------- helpers
\* Index of the first FALSE among ok[1..n], 0 when there is none: where a
\* loop of the form "if (!call) return nullptr" stops.
FirstFailure(n, ok) ==
  IF \E i \in 1..n : ~ok[i]
    THEN CHOOSE i \in 1..n : ~ok[i] /\ \A j \in 1..(i-1) : ok[j]
    ELSE 0

\* ------------------------------------------------------------------ Init
\* ServerBuilder::ServerBuilder(): no service, no pool, empty lists.
Init ==
  /\ services_ = <<>>
  /\ async_services_ = <<>>
  /\ generic_service_ = Null
  /\ thread_pool_ = Null
  /\ cqs_ = <<>>
  /\ ports_ = <<>>
  /\ servers = <<>>
  /\ pools = <<>>
  /\ cells = [c \in SelectedPorts \ {Null} |-> 0]
  /\ genericCalls = <<>>
  /\ setPoolCalled = FALSE
  /\ builds = <<>>
  /\ nops = 0
  /\ destroyed = {}

\* --------------------------------------------------- configuration calls
\* AddCompletionQueue(): a new queue, remembered by the builder, owned by
\* the caller.  The n-th queue created has identity n.
AddCompletionQueue ==
  /\ nops < MaxOps
  /\ cqs_' = Append(cqs_, Len(cqs_) + 1)
  /\ nops' = nops + 1
  /\ UNCHANGED <<services_, async_services_, generic_service_, thread_pool_,
                 ports_, servers, pools, cells, genericCalls, setPoolCalled,
                 builds,
                 destroyed>>

\* The caller destroys the owning handle AddCompletionQueue returned for
\* queue q: the queue is destroyed, the builder still holds its address.
DestroyCompletionQueue(q) ==
  /\ nops < MaxOps
  /\ \E k \in 1..Len(cqs_) : cqs_[k] = q
  /\ q \notin destroyed
  /\ destroyed' = destroyed \cup {q}
  /\ nops' = nops + 1
  /\ UNCHANGED <<services_, async_services_, generic_service_, thread_pool_,
                 cqs_, ports_, servers, pools, cells, genericCalls,
                 setPoolCalled, builds>>

\* RegisterService(service) and RegisterService(addr, service).
RegisterService(host, service) ==
  /\ nops < MaxOps
  /\ services_' = Append(services_, [host |-> host, service |-> service])
  /\ nops' = nops + 1
  /\ UNCHANGED <<async_services_, generic_service_, thread_pool_, cqs_,
                 ports_, servers, pools, cells, genericCalls, setPoolCalled,
                 builds,
                 destroyed>>

\* RegisterAsyncService(service) and RegisterAsyncService(addr, service).
RegisterAsyncService(host, service) ==
  /\ nops < MaxOps
  /\ async_services_' =
       Append(async_services_, [host |-> host, service |-> service])
  /\ nops' = nops + 1
  /\ UNCHANGED <<services_, generic_service_, thread_pool_, cqs_, ports_,
                 servers, pools, cells, genericCalls, setPoolCalled, builds,
                 destroyed>>

\* The slot overwritten by every registration.
GenericSlot_Replace(current, service) == service

\* The slot after RegisterAsyncGenericService(service): kept when it is
\* already set (the new service is dropped with a log line), set otherwise.
GenericSlot(current, service) ==
  IF current # Null THEN current ELSE service

RegisterAsyncGenericService(service) ==
  /\ nops < MaxOps
  /\ generic_service_' = GenericSlot(generic_service_, service)
  /\ genericCalls' = Append(genericCalls, service)
  /\ nops' = nops + 1
  /\ UNCHANGED <<services_, async_services_, thread_pool_, cqs_, ports_,
                 servers, pools, cells, setPoolCalled, builds,
                 destroyed>>

\* AddListeningPort dropping a request whose address is already listed.
AddListeningPort_Dedup(addr, selected_port) ==
  /\ nops < MaxOps
  /\ ports_' = IF \E k \in 1..Len(ports_) : ports_[k].addr = addr
                 THEN ports_
                 ELSE Append(ports_, [addr |-> addr,
                                      selected_port |-> selected_port])
  /\ nops' = nops + 1
  /\ UNCHANGED <<services_, async_services_, generic_service_, thread_pool_,
                 cqs_, servers, pools, cells, genericCalls, setPoolCalled,
                 builds,
                 destroyed>>

\* AddListeningPort(addr, creds, selected_port): appends the request.
AddListeningPort(addr, selected_port) ==
  /\ nops < MaxOps
  /\ ports_' = Append(ports_, [addr |-> addr, selected_port |-> selected_port])
  /\ nops' = nops + 1
  /\ UNCHANGED <<services_, async_services_, generic_service_, thread_pool_,
                 cqs_, servers, pools, cells, genericCalls, setPoolCalled,
                 builds,
                 destroyed>>

\* SetThreadPool(thread_pool).
SetThreadPool(thread_pool) ==
  /\ nops < MaxOps
  /\ thread_pool_' = thread_pool
  /\ setPoolCalled' = TRUE
  /\ nops' = nops + 1
  /\ UNCHANGED <<services_, async_services_, generic_service_, cqs_, ports_,
                 servers, pools, cells, genericCalls, builds,
                 destroyed>>

\* ------------------------------------------------------- BuildAndStart
\* The check with the test of the synchronous list inverted.
IsMixed_Inverted(sync, async) == async # <<>> /\ sync = <<>>

\* The check taking the generic service for an asynchronous one.
IsMixed_CountsGeneric(sync, async) ==
  (async # <<>> \/ generic_service_ # Null) /\ sync # <<>>

\* The compatibility check: both kinds of service registered.
IsMixed(sync, async) == async # <<>> /\ sync # <<>>

\* Pool resolution without the test of the synchronous list.
NeedDefaultPool_Always(pool, sync) == pool = Null

\* Pool resolution without the test of the pool already set.
NeedDefaultPool_IgnoresPool(pool, sync) == sync # <<>>

\* Pool resolution: a default pool is created when none is set and there
\* is a synchronous service.
NeedDefaultPool(pool, sync) == pool = Null /\ sync # <<>>

\* Number of entries a loop with early return visits: all n of them, or
\* those up to and including the first failing one.
Visited(n, ok) ==
  IF FirstFailure(n, ok) = 0 THEN n ELSE FirstFailure(n, ok)

\* A phase of the assembly: the calls it makes on the instance, and whether
\* the assembly goes on after it.
Phase(calls, ok) == [calls |-> calls, ok |-> ok]

\* The queue loop starting at the second queue.
CqPhase_SkipFirst(cqs, got) ==
  [calls |-> [i \in 1..(Len(cqs) - 1) |-> Call("cq", got[i + 1], Null, 1)],
   ok |-> TRUE]

\* What "(*cq)->cq()" can yield for each queue of the list: the queue
\* itself when it is alive; for a destroyed queue the read is of freed
\* memory and yields the old value or some other one (Null here).
CqReads(cqs, dead) ==
  { got \in [1..Len(cqs) -> {Null} \cup {cqs[k] : k \in 1..Len(cqs)}] :
      \A i \in 1..Len(cqs) :
        /\ cqs[i] \notin dead => got[i] = cqs[i]
        /\ cqs[i] \in dead => got[i] \in {cqs[i], Null} }

\* grpc_server_register_completion_queue for every queue, in list order;
\* got[i] is what "(*cq)->cq()" yields for the i-th queue.
CqPhase(cqs, got) ==
  Phase([i \in 1..Len(cqs) |-> Call("cq", got[i], Null, 1)], TRUE)

\* server->RegisterService for every synchronous service, until one fails.
SyncPhase(svcs, ok) ==
  Phase([i \in 1..Visited(Len(svcs), ok) |->
           Call("sync", svcs[i].host, svcs[i].service, IF ok[i] THEN 1 ELSE 0)],
        FirstFailure(Len(svcs), ok) = 0)

\* server->RegisterAsyncService for every asynchronous service, until one
\* fails.
AsyncPhase(svcs, ok) ==
  Phase([i \in 1..Visited(Len(svcs), ok) |->
           Call("async", svcs[i].host, svcs[i].service, IF ok[i] THEN 1 ELSE 0)],
        FirstFailure(Len(svcs), ok) = 0)

\* The attach with its result tested like that of a registration.
GenericPhase_Checked(generic, ok) ==
  [calls |-> IF generic # Null
               THEN <<Call("generic", generic, Null, IF ok THEN 1 ELSE 0)>>
               ELSE <<>>,
   ok |-> generic = Null \/ ok]

\* server->RegisterAsyncGenericService when the slot is set; its result is
\* not looked at.
GenericPhase(generic, ok) ==
  Phase(IF generic # Null
          THEN <<Call("generic", generic, Null, IF ok THEN 1 ELSE 0)>>
          ELSE <<>>,
        TRUE)

\* The test made on the int returned by server->AddListeningPort.
BindFailed(r) == r = 0

\* bindOK[i]: the i-th bind passes the test.
BindOK(r) == [i \in DOMAIN r |-> ~BindFailed(r[i])]

\* server->AddListeningPort for every port request, until one fails.
PortPhase(ports, r) ==
  Phase([i \in 1..Visited(Len(ports), BindOK(r)) |->
           Call("port", ports[i].addr, Null, r[i])],
        FirstFailure(Len(ports), BindOK(r)) = 0)

\* The result of Start not looked at.
StartFailed_Ignored(ok) == FALSE

\* Start called a second time when it failed.
StartPhase_Retry(ok) ==
  [calls |-> IF ok THEN <<Call("start", Null, Null, 1)>>
                   ELSE <<Call("start", Null, Null, 0),
                          Call("start", Null, Null, 0)>>,
   ok |-> ok]

\* server->Start().
StartFailed(ok) == ~ok

StartPhase(ok) ==
  Phase(<<Call("start", Null, Null, IF ok THEN 1 ELSE 0)>>, ~StartFailed(ok))

\* The port loop moved before the service loops.
PhaseOrder_PortsFirst(cq, sync, async, generic, port, start) ==
  <<cq, port, sync, async, generic, start>>

\* The phases in the order BuildAndStart goes through them.
PhaseOrder(cq, sync, async, generic, port, start) ==
  <<cq, sync, async, generic, port, start>>

\* No early return: every phase is gone through.
LastPhase_NoReturn(phases) == Len(phases)

\* The phase BuildAndStart returns in: the first one that does not let the
\* assembly go on, the last one when there is none.
LastPhase(phases) ==
  IF \E k \in 1..Len(phases) : ~phases[k].ok
    THEN CHOOSE k \in 1..Len(phases) :
           ~phases[k].ok /\ \A j \in 1..(k-1) : phases[j].ok
    ELSE Len(phases)

\* The calls of the first k phases, one phase after the other.
RECURSIVE PhaseCalls(_, _)
PhaseCalls(phases, k) ==
  IF k = 0 THEN <<>> ELSE PhaseCalls(phases, k - 1) \o phases[k].calls

\* Going through the phases: a phase runs only if every phase before it
\* let the assembly go on.
RunPhases(phases) ==
  Phase(PhaseCalls(phases, LastPhase(phases)), phases[LastPhase(phases)].ok)

\* The cells after the port loop: "*port->selected_port = r" for every bind
\* that passed the test, in the order of the binds.  The i-th bind is the
\* one of the i-th port request.
RECURSIVE WriteSelectedPorts(_, _, _, _)
WriteSelectedPorts(c, ports, binds, k) ==
  IF k = 0 THEN c
  ELSE LET c1 == WriteSelectedPorts(c, ports, binds, k - 1)
       IN IF ~BindFailed(binds[k].ret) /\ ports[k].selected_port # Null
            THEN [c1 EXCEPT ![ports[k].selected_port] = binds[k].ret]
            ELSE c1

IsBind(call) == call.op = "port"

SelectedPortsAfter(c, ports, calls) ==
  WriteSelectedPorts(c, ports, SelectSeq(calls, IsBind),
                     Len(SelectSeq(calls, IsBind)))

\* The instance let go of instead of destroyed.
Discard_Leak(srv) == srv

\* "return nullptr" with the instance held by the local unique_ptr: the
\* instance is destroyed.
Discard(srv) == [srv EXCEPT !.alive = FALSE]

\* "return server": the instance goes to the caller.
Release(srv) == srv

\* Server::~Server: an instance that owns its pool destroys it.
DestroyOwnedPool(srv, ps) ==
  IF srv.owned /\ ~srv.alive
    THEN [k \in DOMAIN ps |-> IF DefaultPoolId(k) = srv.pool THEN FALSE ELSE ps[k]]
    ELSE ps

\* The listeners an instance holds open: those of its binds that returned a
\* port, for as long as the instance lives.
Listening(srv) ==
  IF srv.alive
    THEN {k \in 1..Len(srv.calls) :
            srv.calls[k].op = "port" /\ srv.calls[k].ret # 0}
    ELSE {}

\* The port list emptied by the port loop.
PortsAfter_Cleared(ports) == <<>>

\* The port list after BuildAndStart: the port loop reads the requests
\* through an iterator and removes none.
PortsAfter(ports) == ports

\* What is recorded of one BuildAndStart call: the builder as the call
\* found it, the instance it constructed (its index in servers, 0 for
\* none), the pool it created (0 for none) and what it returned (the index
\* of the instance, 0 for nullptr).
BuildRecord(server, newPool, result) ==
  [sync |-> services_, async |-> async_services_,
   generic |-> generic_service_, cqs |-> cqs_, ports |-> ports_,
   pool0 |-> thread_pool_, setPool |-> setPoolCalled, cells0 |-> cells,
   dead |-> destroyed,
   server |-> server, newPool |-> newPool, result |-> result]

BuildAndStart(got, syncOK, asyncOK, genericOK, bindR, startOK) ==
  /\ nops < MaxOps
  /\ nops' = nops + 1
  /\ IF IsMixed(services_, async_services_)
       THEN /\ builds' = Append(builds, BuildRecord(0, 0, 0))
            /\ UNCHANGED <<thread_pool_, servers, pools, cells>>
       ELSE LET create == NeedDefaultPool(thread_pool_, services_)
                pool == IF create THEN DefaultPoolId(Len(pools) + 1)
                                  ELSE thread_pool_
                pools1 == IF create THEN Append(pools, TRUE) ELSE pools
                phases == PhaseOrder(CqPhase(cqs_, got),
                                     SyncPhase(services_, syncOK),
                                     AsyncPhase(async_services_, asyncOK),
                                     GenericPhase(generic_service_, genericOK),
                                     PortPhase(ports_, bindR),
                                     StartPhase(startOK))
                run == RunPhases(phases)
                new == [pool |-> pool, owned |-> create, calls |-> run.calls,
                        alive |-> TRUE]
                srv == IF run.ok THEN Release(new) ELSE Discard(new)
                idx == Len(servers) + 1
            IN /\ thread_pool_' = pool
               /\ servers' = Append(servers, srv)
               /\ pools' = DestroyOwnedPool(srv, pools1)
               /\ cells' = SelectedPortsAfter(cells, ports_, run.calls)
               /\ builds' = Append(builds,
                    BuildRecord(idx, IF create THEN pool ELSE 0,
                                IF run.ok THEN idx ELSE 0))
  /\ ports_' = PortsAfter(ports_)
  /\ UNCHANGED <<services_, async_services_, generic_service_, cqs_,
                 genericCalls, setPoolCalled,
                 destroyed>>

\* The results of the calls BuildAndStart makes on the instance.  A call
\* that is not made returns nothing: its entry is fixed (to success), so
\* that each outcome is drawn once.
\* Results of a loop of n registrations: all succeed, or those before the
\* f-th succeed and the f-th fails.
LoopResults(n, made) ==
  { [i \in 1..n |-> i # f] : f \in IF made THEN 0..n ELSE {0} }

\* Results of the binds: any value for each bind made, the binds after the
\* first failing one not being made.
BindLoopResults(n, made) ==
  { r \in [1..n -> BindResults] :
      \A i \in 1..n :
        (~made \/ \E j \in 1..(i-1) : BindFailed(r[j])) => r[i] = 1 }

Build ==
  \E syncOK \in LoopResults(Len(services_),
                            ~IsMixed(services_, async_services_)) :
    \E asyncOK \in LoopResults(Len(async_services_),
                               /\ ~IsMixed(services_, async_services_)
                               /\ FirstFailure(Len(services_), syncOK) = 0) :
      LET registered ==
            /\ ~IsMixed(services_, async_services_)
            /\ FirstFailure(Len(services_), syncOK) = 0
            /\ FirstFailure(Len(async_services_), asyncOK) = 0
      IN \E genericOK \in IF registered /\ generic_service_ # Null
                            THEN BOOLEAN ELSE {TRUE} :
           \E bindR \in BindLoopResults(Len(ports_), registered) :
             \E startOK \in IF registered
                               /\ FirstFailure(Len(ports_), BindOK(bindR)) = 0
                              THEN BOOLEAN ELSE {TRUE} :
               \E got \in IF IsMixed(services_, async_services_)
                             THEN {[i \in 1..Len(cqs_) |-> cqs_[i]]}
                             ELSE CqReads(cqs_, destroyed) :
                 BuildAndStart(got, syncOK, asyncOK, genericOK, bindR,
                               startOK)

\* ------------------------------------------------------- specifications
\* Every call of the builder, with every argument.
Next ==
  \/ AddCompletionQueue
  \/ \E q \in 1..Len(cqs_) : DestroyCompletionQueue(q)
  \/ \E h \in Hosts, s \in Services : RegisterService(h, s)
  \/ \E h \in Hosts, s \in Services : RegisterAsyncService(h, s)
  \/ \E g \in GenericServices : RegisterAsyncGenericService(g)
  \/ \E a \in Addrs, c \in SelectedPorts : AddListeningPort(a, c)
  \/ \E p \in UserPools : SetThreadPool(p)
  \/ Build

Spec == Init /\ [][Next]_vars

\* Services and thread pools.
NextPool ==
  \/ \E s \in Services : RegisterService(Null, s)
  \/ \E s \in Services : RegisterAsyncService(Null, s)
  \/ \E p \in UserPools : SetThreadPool(p)
  \/ Build

SpecPool == Init /\ [][NextPool]_vars

\* Services and listening ports.
NextPorts ==
  \/ \E s \in Services : RegisterService(Null, s)
  \/ \E s \in Services : RegisterAsyncService(Null, s)
  \/ \E a \in Addrs, c \in SelectedPorts : AddListeningPort(a, c)
  \/ Build

SpecPorts == Init /\ [][NextPorts]_vars

\* Everything BuildAndStart hands to the instance.
NextOrder ==
  \/ AddCompletionQueue
  \/ \E h \in Hosts, s \in Services : RegisterService(h, s)
  \/ \E s \in Services : RegisterAsyncService(Null, s)
  \/ \E g \in GenericServices \ {Null} : RegisterAsyncGenericService(g)
  \/ \E a \in Addrs : AddListeningPort(a, Null)
  \/ Build

SpecOrder == Init /\ [][NextOrder]_vars

\* Completion queues and their destruction by the caller.
NextQueues ==
  \/ AddCompletionQueue
  \/ \E q \in 1..Len(cqs_) : DestroyCompletionQueue(q)
  \/ \E s \in Services : RegisterAsyncService(Null, s)
  \/ Build

SpecQueues == Init /\ [][NextQueues]_vars

\* The generic service slot.
NextGeneric ==
  \/ \E s \in Services : RegisterAsyncService(Null, s)
  \/ \E g \in GenericServices : RegisterAsyncGenericService(g)
  \/ Build

SpecGeneric == Init /\ [][NextGeneric]_vars

\* ================================================================ claims
\* The BuildAndStart calls made so far, and what each one found and did.
Builds == 1..Len(builds)
WasMixed(b) == b.sync # <<>> /\ b.async # <<>>
\* The calls made on the instance a BuildAndStart call constructed.
CallsOf(b) == servers[b.server].calls
OpsOf(calls) == {calls[k].op : k \in 1..Len(calls)}
IsOp(calls, k, op) == calls[k].op = op
IsCq(call) == call.op = "cq"
IsSync(call) == call.op = "sync"
IsAsync(call) == call.op = "async"
IsGeneric(call) == call.op = "generic"
IsStart(call) == call.op = "start"
\* s is the beginning of t.
IsPrefix(s, t) == Len(s) <= Len(t) /\ \A k \in 1..Len(s) : s[k] = t[k]
\* A BuildAndStart step.
IsBuildStep == Len(builds') = Len(builds) + 1

\* C1: when both the synchronous and the asynchronous list are non-empty,
\* BuildAndStart returns nullptr and creates nothing: no instance, no
\* default pool, no call on any instance, no write to a caller's cell.
C1_MixedCreatesNothing ==
  [][ (IsBuildStep /\ services_ # <<>> /\ async_services_ # <<>>)
        => /\ builds'[Len(builds')].result = 0
           /\ builds'[Len(builds')].server = 0
           /\ builds'[Len(builds')].newPool = 0
           /\ servers' = servers
           /\ pools' = pools
           /\ cells' = cells
           /\ thread_pool_' = thread_pool_ ]_vars

\* A BuildAndStart call was made on a mixed builder that also had a port
\* request or a completion queue.
C1_Witness ==
  \E i \in Builds :
    /\ WasMixed(builds[i])
    /\ (builds[i].ports # <<>> \/ builds[i].cqs # <<>>)

\* C2: BuildAndStart returns an instance exactly when the builder is not
\* mixed, every service registration made on the instance returned true,
\* every bind returned non-zero and Start returned true; a returned
\* instance had every service registered and every port request bound, and
\* with no service and no port request no registration or bind is made.
AllRegistered(calls) ==
  \A k \in 1..Len(calls) :
    (IsSync(calls[k]) \/ IsAsync(calls[k])) => calls[k].ret = 1
AllBound(calls) ==
  \A k \in 1..Len(calls) : IsBind(calls[k]) => calls[k].ret # 0
StartSucceeded(calls) ==
  \E k \in 1..Len(calls) : IsStart(calls[k]) /\ calls[k].ret = 1

C2_ResultIffAllSucceeded ==
  \A i \in Builds :
    LET b == builds[i] IN
    /\ (b.result # 0) <=>
         /\ ~WasMixed(b)
         /\ b.server # 0
         /\ AllRegistered(CallsOf(b))
         /\ AllBound(CallsOf(b))
         /\ StartSucceeded(CallsOf(b))
    /\ b.result # 0 =>
         /\ b.result = b.server
         /\ Len(SelectSeq(CallsOf(b), IsSync)) = Len(b.sync)
         /\ Len(SelectSeq(CallsOf(b), IsAsync)) = Len(b.async)
         /\ Len(SelectSeq(CallsOf(b), IsBind)) = Len(b.ports)
    /\ (b.sync = <<>> /\ b.async = <<>> /\ b.ports = <<>>) =>
         /\ b.server # 0
         /\ OpsOf(CallsOf(b)) \cap {"sync", "async", "port"} = {}
         /\ (b.result # 0 <=> StartSucceeded(CallsOf(b)))

\* A BuildAndStart call with a service and a port request returned an
\* instance.
C2_Witness ==
  \E i \in Builds :
    /\ builds[i].result # 0
    /\ builds[i].sync # <<>>
    /\ builds[i].ports # <<>>

\* C3: when BuildAndStart returns nullptr after constructing the instance,
\* the instance is destroyed and none of its listeners is open.
C3_FailedInstanceDestroyed ==
  \A i \in Builds :
    (builds[i].server # 0 /\ builds[i].result = 0)
      => /\ ~servers[builds[i].server].alive
         /\ Listening(servers[builds[i].server]) = {}

\* A BuildAndStart call returned nullptr after one of its binds returned a
\* port.
C3_Witness ==
  \E i \in Builds :
    /\ builds[i].server # 0
    /\ builds[i].result = 0
    /\ \E k \in 1..Len(CallsOf(builds[i])) :
         IsBind(CallsOf(builds[i])[k]) /\ CallsOf(builds[i])[k].ret # 0

\* C4: the calls on an instance come in the order completion queues,
\* synchronous services, asynchronous services, generic service, ports,
\* Start; within a phase they follow the builder's lists; Start is called
\* at most once and is the last call.
PhaseRank(op) ==
  CASE op = "cq" -> 1
    [] op = "sync" -> 2
    [] op = "async" -> 3
    [] op = "generic" -> 4
    [] op = "port" -> 5
    [] op = "start" -> 6
ServiceOf(call) == [host |-> call.a, service |-> call.b]
ArgsOf(calls, Test(_), Arg(_)) ==
  [k \in 1..Len(SelectSeq(calls, Test)) |-> Arg(SelectSeq(calls, Test)[k])]
CqOf(call) == call.a
AddrOf(call) == call.a
AddrsOf(ports) == [k \in 1..Len(ports) |-> ports[k].addr]

C4_PhaseOrder ==
  \A i \in Builds :
    builds[i].server # 0 =>
      LET b == builds[i]
          calls == CallsOf(b)
      IN /\ \A j, k \in 1..Len(calls) :
              j < k => PhaseRank(calls[j].op) <= PhaseRank(calls[k].op)
         /\ \A k \in 1..Len(calls) : IsStart(calls[k]) => k = Len(calls)
         /\ Len(SelectSeq(calls, IsStart)) <= 1
         /\ Len(SelectSeq(calls, IsGeneric)) <= 1
         /\ ArgsOf(calls, IsCq, CqOf) = b.cqs
         /\ IsPrefix(ArgsOf(calls, IsSync, ServiceOf), b.sync)
         /\ IsPrefix(ArgsOf(calls, IsAsync, ServiceOf), b.async)
         /\ IsPrefix(ArgsOf(calls, IsBind, AddrOf), AddrsOf(b.ports))

\* An instance went through the queue, service and port phases and Start.
C4_Witness ==
  \E i \in Builds :
    /\ builds[i].server # 0
    /\ {"cq", "sync", "port", "start"} \subseteq OpsOf(CallsOf(builds[i]))

\* C5: every BuildAndStart call on a builder with a synchronous service, no
\* asynchronous service and no SetThreadPool call so far creates a default
\* pool and constructs its instance with that pool, owned.
C5_DefaultPoolEveryCall ==
  \A i \in Builds :
    LET b == builds[i] IN
    (b.sync # <<>> /\ b.async = <<>> /\ ~b.setPool)
      => /\ b.newPool # 0
         /\ b.server # 0
         /\ servers[b.server].pool = b.newPool
         /\ servers[b.server].owned

\* C6: with no synchronous service BuildAndStart creates no default pool
\* and the instance it constructs does not own its pool; a default pool is
\* created only by a call that found a synchronous service.
C6_NoSyncNoDefaultPool ==
  /\ \A i \in Builds :
       builds[i].sync = <<>> =>
         /\ builds[i].newPool = 0
         /\ builds[i].server # 0 => ~servers[builds[i].server].owned
  /\ \A i \in Builds : builds[i].newPool # 0 => builds[i].sync # <<>>
  /\ services_ = <<>> => pools = <<>>

\* A BuildAndStart call constructed an instance for a builder without
\* synchronous services and without a pool.
C6_Witness ==
  \E i \in Builds :
    /\ builds[i].sync = <<>>
    /\ builds[i].pool0 = Null
    /\ builds[i].server # 0

\* C7: no two instances are constructed with the same pool when one of
\* them owns it.
C7_OwnedPoolExclusive ==
  \A i, j \in 1..Len(servers) :
    (i # j /\ servers[i].owned) => servers[i].pool # servers[j].pool

\* C8: after RegisterAsyncGenericService calls with non-null services only,
\* the slot holds the service of the first call, and BuildAndStart attaches
\* that service, once, and no other.
C8_FirstGenericKept ==
  (genericCalls # <<>> /\ \A k \in 1..Len(genericCalls) : genericCalls[k] # Null)
    => /\ generic_service_ = genericCalls[1]
       /\ \A i \in Builds :
            builds[i].server # 0 =>
              LET attached == SelectSeq(CallsOf(builds[i]), IsGeneric)
              IN /\ Len(attached) <= 1
                 /\ \A k \in 1..Len(attached) : attached[k].a = genericCalls[1]
                 /\ (builds[i].generic # Null
                     /\ AllRegistered(CallsOf(builds[i]))) => Len(attached) = 1

\* Two different non-null services were registered, and an instance got
\* the generic service attached.
C8_Witness ==
  /\ Len(genericCalls) >= 2
  /\ \A k \in 1..Len(genericCalls) : genericCalls[k] # Null
  /\ genericCalls[2] # genericCalls[1]
  /\ \E i \in Builds :
       /\ builds[i].server # 0
       /\ builds[i].generic # Null
       /\ "generic" \in OpsOf(CallsOf(builds[i]))

\* C9: after a BuildAndStart that returned an instance, the cell of every
\* port request that has one holds what the bind of that request returned,
\* and that is strictly positive.
C9_SelectedPortPositive ==
  builds # <<>> =>
    LET b == builds[Len(builds)] IN
    b.result # 0 =>
      \A k \in 1..Len(b.ports) :
        b.ports[k].selected_port # Null =>
          /\ cells[b.ports[k].selected_port]
               = SelectSeq(CallsOf(b), IsBind)[k].ret
          /\ cells[b.ports[k].selected_port] > 0

\* C10: the queues AddCompletionQueue returned before a BuildAndStart call
\* are registered with the instance of that call, each once, before any
\* other call on the instance; a queue added later is not registered with
\* it.
C10_QueuesRegisteredFirst ==
  \A i \in Builds :
    builds[i].server # 0 =>
      LET b == builds[i]
          calls == CallsOf(b)
      IN /\ Len(calls) >= Len(b.cqs)
         /\ \A k \in 1..Len(calls) : IsCq(calls[k]) <=> k <= Len(b.cqs)
         /\ \A k \in 1..Len(b.cqs) : calls[k].a = b.cqs[k]
         /\ \A k, l \in 1..Len(b.cqs) : k # l => b.cqs[k] # b.cqs[l]
         /\ \A q \in 1..Len(cqs_) :
              (\A k \in 1..Len(b.cqs) : b.cqs[k] # cqs_[q])
                => \A k \in 1..Len(calls) : ~(IsCq(calls[k]) /\ calls[k].a = cqs_[q])

\* An instance had a queue registered before another call was made on it,
\* and a queue was added after that BuildAndStart call.
C10_Witness ==
  \E i \in Builds :
    /\ builds[i].server # 0
    /\ builds[i].cqs # <<>>
    /\ Len(cqs_) > Len(builds[i].cqs)
    /\ Len(CallsOf(builds[i])) > Len(builds[i].cqs)

\* C11: when the builder holds a non-null pool given to SetThreadPool, the
\* instance BuildAndStart constructs gets that pool, not owned, and no
\* default pool is created, whatever services are registered; no instance
\* ever owns a pool of the caller.
C11_UserPoolNeverOwned ==
  /\ \A i \in Builds :
       LET b == builds[i] IN
       (b.setPool /\ b.pool0 \in UserPools \ {Null}) =>
         /\ b.newPool = 0
         /\ b.server # 0 =>
              /\ servers[b.server].pool = b.pool0
              /\ ~servers[b.server].owned
  /\ \A j \in 1..Len(servers) :
       servers[j].owned => servers[j].pool \notin UserPools

\* A BuildAndStart call constructed an instance for a builder with a
\* synchronous service and a pool of the caller.
C11_Witness ==
  \E i \in Builds :
    /\ builds[i].setPool
    /\ builds[i].pool0 \in UserPools \ {Null}
    /\ builds[i].sync # <<>>
    /\ builds[i].server # 0

\* C12 as stated: once BuildAndStart has returned, the port requests it
\* found are no longer in the builder, and a later BuildAndStart binds
\* none of them.
C12_PortsConsumed ==
  \A i \in Builds :
    builds[i].ports # <<>> =>
      /\ ~IsPrefix(builds[i].ports, ports_)
      /\ \A j \in Builds :
           (i < j /\ builds[j].server # 0) =>
             Len(SelectSeq(CallsOf(builds[j]), IsBind))
               <= Len(builds[j].ports) - Len(builds[i].ports)

\* C12 amended: BuildAndStart leaves the port list as it is; the requests
\* it found are still in the builder, in the same order, after it returns,
\* so a later BuildAndStart finds them again and an instance it returns has
\* bound every one of them.
C12_PortsKept ==
  /\ \A i \in Builds : IsPrefix(builds[i].ports, ports_)
  /\ \A i, j \in Builds :
       i < j =>
         /\ IsPrefix(builds[i].ports, builds[j].ports)
         /\ builds[j].result # 0 =>
              ArgsOf(CallsOf(builds[j]), IsBind, AddrOf)
                = AddrsOf(builds[j].ports)

\* Two BuildAndStart calls found the same port request, and the second one
\* returned an instance.
C12_Witness ==
  \E i, j \in Builds :
    /\ i < j
    /\ builds[i].ports # <<>>
    /\ builds[j].result # 0

\* C13: a failing service registration or a bind returning 0 is the last
\* call made on the instance; a bind is made only after every service was
\* registered with success; Start is called only when every registration
\* and every bind succeeded.
IsFailure(call) ==
  \/ (IsSync(call) \/ IsAsync(call)) /\ call.ret = 0
  \/ IsBind(call) /\ call.ret = 0

C13_ShortCircuit ==
  \A i \in Builds :
    builds[i].server # 0 =>
      LET b == builds[i]
          calls == CallsOf(b)
      IN /\ \A k \in 1..Len(calls) : IsFailure(calls[k]) => k = Len(calls)
         /\ (\E k \in 1..Len(calls) : IsFailure(calls[k])) => b.result = 0
         /\ (\E k \in 1..Len(calls) : IsBind(calls[k])) =>
              /\ AllRegistered(calls)
              /\ Len(SelectSeq(calls, IsSync)) = Len(b.sync)
              /\ Len(SelectSeq(calls, IsAsync)) = Len(b.async)
         /\ (\E k \in 1..Len(calls) : IsStart(calls[k])) =>
              /\ AllRegistered(calls)
              /\ AllBound(calls)
              /\ Len(SelectSeq(calls, IsSync)) = Len(b.sync)
              /\ Len(SelectSeq(calls, IsAsync)) = Len(b.async)
              /\ Len(SelectSeq(calls, IsBind)) = Len(b.ports)

\* A bind returned 0 after a service was registered with success.
C13_Witness ==
  \E i \in Builds :
    /\ builds[i].server # 0
    /\ builds[i].sync # <<>>
    /\ \E k \in 1..Len(CallsOf(builds[i])) :
         IsBind(CallsOf(builds[i])[k]) /\ CallsOf(builds[i])[k].ret = 0

\* C14: the generic service is attached exactly once when the slot is set
\* and every service was registered, and not at all when the slot is
\* empty; whatever the attach returns, the assembly goes on to the binds
\* (to Start when there is no port request).
C14_GenericAttachUnconditional ==
  \A i \in Builds :
    builds[i].server # 0 =>
      LET b == builds[i]
          calls == CallsOf(b)
          registered == /\ AllRegistered(calls)
                        /\ Len(SelectSeq(calls, IsSync)) = Len(b.sync)
                        /\ Len(SelectSeq(calls, IsAsync)) = Len(b.async)
      IN /\ b.generic = Null => Len(SelectSeq(calls, IsGeneric)) = 0
         /\ (b.generic # Null /\ registered) =>
              Len(SelectSeq(calls, IsGeneric)) = 1
         /\ \A k \in 1..Len(calls) :
              IsGeneric(calls[k]) =>
                /\ calls[k].a = b.generic
                /\ k < Len(calls)
                /\ calls[k + 1].op = IF b.ports # <<>> THEN "port" ELSE "start"

\* An attach returned false and the bind of a port request followed it.
C14_Witness ==
  \E i \in Builds :
    /\ builds[i].server # 0
    /\ \E k \in 1..(Len(CallsOf(builds[i])) - 1) :
         /\ IsGeneric(CallsOf(builds[i])[k])
         /\ CallsOf(builds[i])[k].ret = 0
         /\ IsBind(CallsOf(builds[i])[k + 1])

\* C15: a call of the builder that is neither a registration of a service
\* nor BuildAndStart (under SpecPorts: an AddListeningPort call) appends
\* exactly one request to the end of the port list, also when the address
\* is already listed, and leaves the rest of the builder, the instances,
\* the pools and the cells as they are.
C15_AddListeningPortOnlyAppends ==
  [][ (nops' # nops /\ UNCHANGED <<services_, async_services_, builds>>)
        => /\ \E a \in Addrs, c \in SelectedPorts :
                ports_' = Append(ports_, [addr |-> a, selected_port |-> c])
           /\ UNCHANGED <<services_, async_services_, generic_service_,
                          thread_pool_, cqs_, servers, pools, cells,
                          genericCalls, setPoolCalled, builds>> ]_vars

\* Two requests with the same address are in the port list, and no
\* instance was constructed.
C15_Witness ==
  /\ Len(ports_) >= 2
  /\ ports_[1].addr = ports_[2].addr
  /\ servers = <<>>
  /\ \A c \in DOMAIN cells : cells[c] = 0

\* C16: BuildAndStart is one pass: it constructs at most one instance and
\* makes on it at most one call for each completion queue, each service and
\* each port request, at most one attach and at most one Start, so the
\* number of calls is bounded by the size of the configuration.
C16_SinglePass ==
  /\ Len(servers) <= Len(builds)
  /\ \A i, j \in Builds :
       (i # j /\ builds[i].server # 0) => builds[i].server # builds[j].server
  /\ \A i \in Builds :
       builds[i].server # 0 =>
         LET b == builds[i]
             calls == CallsOf(b)
         IN /\ Len(SelectSeq(calls, IsCq)) <= Len(b.cqs)
            /\ Len(SelectSeq(calls, IsSync)) <= Len(b.sync)
            /\ Len(SelectSeq(calls, IsAsync)) <= Len(b.async)
            /\ Len(SelectSeq(calls, IsGeneric)) <= 1
            /\ Len(SelectSeq(calls, IsBind)) <= Len(b.ports)
            /\ Len(SelectSeq(calls, IsStart)) <= 1
            /\ Len(calls) <= Len(b.cqs) + Len(b.sync) + Len(b.async)
                               + Len(b.ports) + 2

\* A BuildAndStart call returned nullptr because Start failed, after a
\* registration or a bind.
C16_Witness ==
  \E i \in Builds :
    /\ builds[i].server # 0
    /\ builds[i].result = 0
    /\ Len(CallsOf(builds[i])) >= 2
    /\ IsStart(CallsOf(builds[i])[Len(CallsOf(builds[i]))])

\* C17: no instance is constructed with a pool that was destroyed before:
\* a pool destroyed with the discarded instance that owned it is not the
\* pool of any instance constructed later.
C17_PoolAliveAtConstruction ==
  \A i, j \in 1..Len(servers) :
    (/\ i < j
     /\ servers[i].owned
     /\ \E k \in DOMAIN pools :
          DefaultPoolId(k) = servers[i].pool /\ ~pools[k])
      => servers[j].pool # servers[i].pool

\* C18: when BuildAndStart returns nullptr, every cell of the caller holds
\* what it held before the call.
C18_NoWriteOnFailure ==
  builds # <<>> =>
    (builds[Len(builds)].result = 0 => cells = builds[Len(builds)].cells0)

\* C19: every completion queue BuildAndStart registers with an instance is
\* alive at that time, whatever the caller did with the handles.
C19_QueuesAliveAtRegistration ==
  \A i \in Builds :
    builds[i].server # 0 =>
      \A k \in 1..Len(builds[i].cqs) : builds[i].cqs[k] \notin builds[i].dead


\* C20: a builder with a synchronous service, no asynchronous service and
\* the generic slot set is not rejected as mixed: BuildAndStart constructs
\* an instance with a pool, registers the synchronous services on it and,
\* when they all registered, attaches the generic service to it after them.
C20_GenericIsNotAsync ==
  \A i \in Builds :
    LET b == builds[i] IN
    (b.sync # <<>> /\ b.async = <<>> /\ b.generic # Null) =>
      /\ b.server # 0
      /\ servers[b.server].pool # Null
      /\ Len(SelectSeq(CallsOf(b), IsSync)) >= 1
      /\ (AllRegistered(CallsOf(b))
          /\ Len(SelectSeq(CallsOf(b), IsSync)) = Len(b.sync)) =>
           \E k \in 1..Len(CallsOf(b)) :
             /\ IsGeneric(CallsOf(b)[k])
             /\ CallsOf(b)[k].a = b.generic
             /\ \A j \in 1..Len(CallsOf(b)) : IsSync(CallsOf(b)[j]) => j < k

\* An instance had a synchronous service registered and the generic
\* service attached.
C20_Witness ==
  \E i \in Builds :
    /\ builds[i].sync # <<>>
    /\ builds[i].generic # Null
    /\ builds[i].server # 0
    /\ {"sync", "generic"} \subseteq OpsOf(CallsOf(builds[i]))

====
